---- MODULE Spec2Model ----
(***************************************************************************)
(* CampusConnect: the event scraper (utils/event_scraper.py) and the       *)
(* weather client (utils/api_client.py) over the two tables they write,    *)
(* api_data and external_events.                                           *)
(*                                                                         *)
(* Python strings are sequences of atoms (words, whitespace, punctuation), *)
(* so that concatenation is \o and trimming, collapsing and searching are  *)
(* computed on the sequence.  Python values carry their type in a tag.     *)
(***************************************************************************)
EXTENDS Integers, Sequences, FiniteSets, TLC

VARIABLES
    pc,               \* position of the one (synchronous) caller
    entry,            \* the entry point that is running or has returned
    ret,              \* the value the entry point returned
    event_links,      \* scrape_events: soup.find_all(...) result
    idx,              \* scrape_events: index of the loop over event_links[:10]
    seen_events,      \* scrape_events: hrefs already processed
    events,           \* scrape_events: the list being built / the batch being saved
    full_url,         \* scrape_events: the URL handed to _fetch_event_details
    response,         \* scrape_events / fetch_weather: the response to the request
    detail,           \* _fetch_event_details: the response to the detail request
    sidx,             \* save_events_to_db: index of the insert loop
    txn,              \* rows inserted on the open connection, not yet committed
    saved,            \* what save_events_to_db / save_to_database returned
    weather_data,     \* get_and_store_weather: fetch_weather's result
    cleaned_data,     \* get_and_store_weather: clean_data's result
    api_data,         \* table api_data (committed rows, insertion order)
    external_events,  \* table external_events (committed rows, insertion order)
    site,             \* the calendar pages the campus site may serve
    web,              \* the detail pages behind the event URLs
    provider,         \* the 2xx JSON bodies the weather provider may answer
    log,              \* history: what the running call has done so far
    failures,         \* history: requests that failed during the running call
    db0               \* history: both tables as they were when the call began

vars == <<pc, entry, ret, event_links, idx, seen_events, events, full_url,
          response, detail, sidx, txn, saved, weather_data, cleaned_data,
          api_data, external_events, site, web, provider, log, failures, db0>>

(***************************************************************************)
(* Bounds of the model.                                                    *)
(***************************************************************************)
\* a new call starts only while the two tables hold at most this many rows
\* beyond the seed
MaxStored == 1
\* detail-page requests that may fail within one scrape
MaxFailures == 1

(***************************************************************************)
(* Python values.                                                          *)
(***************************************************************************)
PyNone == [t |-> "None"]
PyStr(s) == [t |-> "str", v |-> s]
PyNum(n) == [t |-> "num", v |-> n]
PyList(l) == [t |-> "list", v |-> l]
PyDict(d) == [t |-> "dict", v |-> d]
PyBool(b) == [t |-> "bool", v |-> b]

\* Python truthiness (if x: / if not x:)
Truthy(x) ==
    CASE x.t = "None" -> FALSE
      [] x.t = "str"  -> x.v # <<>>
      [] x.t = "list" -> x.v # <<>>
      [] x.t = "dict" -> DOMAIN x.v # {}
      [] x.t = "num"  -> x.v # 0
      [] x.t = "bool" -> x.v
      [] OTHER        -> TRUE

(***************************************************************************)
(* Strings.                                                                *)
(***************************************************************************)
IsSpace(a) == a \in {" ", "\n", "\t"}

RECURSIVE LStrip(_)
LStrip(s) == IF s # <<>> /\ IsSpace(Head(s)) THEN LStrip(Tail(s)) ELSE s

RECURSIVE RStrip(_)
RStrip(s) ==
    IF s # <<>> /\ IsSpace(s[Len(s)]) THEN RStrip(SubSeq(s, 1, Len(s) - 1)) ELSE s

\* str.strip()
Strip(s) == LStrip(RStrip(s))

\* re.sub(r'\s+', ' ', s): every run of whitespace becomes one space
RECURSIVE SubSpaces(_)
SubSpaces(s) ==
    IF s = <<>> THEN <<>>
    ELSE IF IsSpace(Head(s)) THEN <<" ">> \o SubSpaces(LStrip(s))
    ELSE <<Head(s)>> \o SubSpaces(Tail(s))

\* re.sub(r'\s+', ' ', s).strip()
Collapse(s) == Strip(SubSpaces(s))

\* str.split(): the maximal runs of non-whitespace
RECURSIVE Split(_)
Split(s) ==
    LET t == LStrip(s)
        RECURSIVE Word(_)
        Word(u) == IF u = <<>> \/ IsSpace(Head(u)) THEN <<>>
                   ELSE <<Head(u)>> \o Word(Tail(u))
    IN  IF t = <<>> THEN <<>>
        ELSE <<Word(t)>> \o Split(SubSeq(t, Len(Word(t)) + 1, Len(t)))

\* ' '.join(words)
RECURSIVE JoinSpace(_)
JoinSpace(ws) ==
    IF ws = <<>> THEN <<>>
    ELSE IF Len(ws) = 1 THEN ws[1]
    ELSE ws[1] \o <<" ">> \o JoinSpace(Tail(ws))

\* the least element of a non-empty set of integers
Min(S) == CHOOSE x \in S : \A y \in S : x <= y

(***************************************************************************)
(* The atoms the regular expressions of _fetch_event_details tell apart.   *)
(***************************************************************************)
\* an atom that is wholly [A-Z][a-z]+
CapWords == {"Heritage", "Hall", "Dec", "December", "Game", "Night", "Free",
             "Upcoming", "Interested", "Student", "Center", "Location",
             "Description", "Questions"}
\* an atom that is digits only
DigitAtoms == {"9", "01", "12", "101", "2025"}
\* \d{1,2} followed by a non-digit
DayAtoms == {"9", "01", "12"}
\* \d{4}
YearAtoms == {"2025"}
\* (Jan|Feb|...|Dec)[a-z]* under re.IGNORECASE
MonthAtoms == {"Dec", "dec", "December"}
\* \d{1,2}:\d{2}
ClockAtoms == {"09:00", "9:00"}
\* [AP]M
MeridiemAtoms == {"AM", "PM"}
\* \d matches the first character of the atom
StartsWithDigit(a) == a \in DigitAtoms \cup ClockAtoms
\* <[^>]+>
MarkupAtoms == {"<b>", "</b>"}
\* the markers, as re.IGNORECASE reads them
IsDescriptionMarker(a) == a \in {"DESCRIPTION", "Description", "description"}
IsLocationMarker(a) == a \in {"LOCATION", "Location", "location"}
IsDescriptionEnd(a) ==
    a \in {"QUESTIONS", "Questions", "questions", "UPCOMING", "Upcoming",
           "upcoming", "INTERESTED", "Interested", "interested"}

\* filler atoms stand for a run of that many letters; every other atom's
\* length is that of its text
FillerLen(a) ==
    CASE a = "x{100}" -> 100 [] a = "x{200}" -> 200 [] a = "x{300}" -> 300
      [] a = "x{400}" -> 400 [] a = "x{199}" -> 199 [] OTHER -> 0
Filler(n) ==
    CASE n = 100 -> "x{100}" [] n = 200 -> "x{200}" [] n = 300 -> "x{300}"
      [] n = 400 -> "x{400}" [] n = 199 -> "x{199}"
AtomLen(a) ==
    IF FillerLen(a) > 0 THEN FillerLen(a)
    ELSE CASE a \in {" ", "\n", "\t", ",", "9"} -> 1
           [] a \in {"01", "12", "AM", "PM"} -> 2
           [] a \in {"Dec", "dec", "101", "<b>"} -> 3
           [] a \in {"2025", "9:00", "Free", "Game", "Hall", "</b>"} -> 4
           [] a \in {"09:00", "pizza", "Night"} -> 5
           [] a \in {"Center"} -> 6
           [] a \in {"Student"} -> 7
           [] a \in {"Heritage", "LOCATION", "Location", "location",
                     "December", "Upcoming", "upcoming"} -> 8
           [] a \in {"QUESTIONS", "Questions", "questions"} -> 9
           [] a \in {"Interested", "interested"} -> 10
           [] a \in {"DESCRIPTION", "Description", "description"} -> 11

RECURSIVE StrLen(_)
StrLen(s) == IF s = <<>> THEN 0 ELSE AtomLen(Head(s)) + StrLen(Tail(s))

\* s[:n]
RECURSIVE Slice(_, _)
Slice(s, n) ==
    IF s = <<>> \/ n <= 0 THEN <<>>
    ELSE IF AtomLen(Head(s)) <= n
         THEN <<Head(s)>> \o Slice(Tail(s), n - AtomLen(Head(s)))
         ELSE <<Filler(n)>>

\* the end of the whitespace run that begins at i (i - 1 when there is none)
RECURSIVE SpaceRunEnd(_, _)
SpaceRunEnd(s, i) ==
    IF i <= Len(s) /\ IsSpace(s[i]) THEN SpaceRunEnd(s, i + 1) ELSE i - 1

(***************************************************************************)
(* _fetch_event_details, after the page has been fetched.  A page is       *)
(* [h2 : the h2 elements in document order, each [class, text],            *)
(*  text : soup.get_text()].                                               *)
(***************************************************************************)
DefaultTitle == <<"Campus", " ", "Event">>
DefaultLocation ==
    <<"Blue", " ", "Mountain", " ", "Christian", " ", "University">>
DescriptionLimit == 500

\* class_=re.compile(r'event|title', re.IGNORECASE)
ClassMatches(c) == c \in {"event-title", "Title", "event"}

ExtractTitle(page) ==
    LET classed == {i \in 1..Len(page.h2) : ClassMatches(page.h2[i].class)}
        title_elem == IF classed # {} THEN Min(classed)
                      ELSE IF page.h2 # <<>> THEN 1 ELSE 0
    IN  IF title_elem = 0 THEN PyStr(DefaultTitle)
        ELSE PyStr(Collapse(Strip(page.h2[title_elem].text)))

\* re.sub(r'<[^>]+>', '', s)
RECURSIVE SubMarkup(_)
SubMarkup(s) ==
    IF s = <<>> THEN <<>>
    ELSE IF Head(s) \in MarkupAtoms THEN SubMarkup(Tail(s))
    ELSE <<Head(s)>> \o SubMarkup(Tail(s))

ExtractDescription(text) ==
    LET starts == {i \in 1..(Len(text) - 1) :
                      IsDescriptionMarker(text[i]) /\ IsSpace(text[i + 1])}
        m == Min(starts)
        from == SpaceRunEnd(text, m + 1) + 1
        stops == {j \in from..Len(text) : IsDescriptionEnd(text[j])}
        to == IF stops = {} THEN Len(text) ELSE Min(stops) - 1
        group1 == SubSeq(text, from, to)
        cleaned == SubMarkup(Collapse(Strip(group1)))
    IN  IF starts = {} THEN PyNone
        ELSE PyStr(IF StrLen(cleaned) > DescriptionLimit
                   THEN Slice(cleaned, DescriptionLimit) ELSE cleaned)

\* LOCATION\s+([^\n]+): where group 1 begins for the marker at i, 0 for none
LocationGroupStart(text, i) ==
    LET e == SpaceRunEnd(text, i + 1)
        back == {k \in (i + 2)..e : text[k] # "\n"}
    IN  IF e <= i THEN 0
        ELSE IF e < Len(text) THEN e + 1
        ELSE IF back # {} THEN CHOOSE k \in back : \A l \in back : l <= k
        ELSE 0

\* the end of [^\n]+ begun at i
RECURSIVE LineEnd(_, _)
LineEnd(s, i) ==
    IF i < Len(s) /\ s[i + 1] # "\n" THEN LineEnd(s, i + 1) ELSE i

\* ([A-Z][a-z]+(?:\s+[A-Z][a-z]+){0,3}) begun at p: the chain of capitalised
\* words from p, as [last |-> index of its last word, n |-> its words]
RECURSIVE CapChain(_, _, _)
CapChain(s, p, n) ==
    LET e == SpaceRunEnd(s, p + 1)
    IN  IF e > p /\ e < Len(s) /\ s[e + 1] \in CapWords
        THEN CapChain(s, e + 1, n + 1)
        ELSE [last |-> p, n |-> n]

\* the pattern matches at p: at most four words, then \s+\d
BuildingAt(s, p) ==
    LET c == CapChain(s, p, 1)
        e == SpaceRunEnd(s, c.last + 1)
    IN  /\ s[p] \in CapWords
        /\ c.n <= 4
        /\ e > c.last /\ e < Len(s) /\ StartsWithDigit(s[e + 1])

\* re.sub(r'\d+.*$', '', s)
RECURSIVE SubDigitsToEnd(_)
SubDigitsToEnd(s) ==
    IF s = <<>> \/ StartsWithDigit(Head(s)) THEN <<>>
    ELSE <<Head(s)>> \o SubDigitsToEnd(Tail(s))

ExtractLocation(text) ==
    LET marks == {i \in 1..Len(text) :
                     IsLocationMarker(text[i]) /\ LocationGroupStart(text, i) > 0}
        g == LocationGroupStart(text, Min(marks))
        loc_text == Strip(SubSeq(text, g, LineEnd(text, g)))
        loc_lines == Split(loc_text)
        builds == {p \in 1..Len(text) : BuildingAt(text, p)}
        b == Min(builds)
        first3 == SubSeq(loc_lines, 1, IF Len(loc_lines) < 3 THEN Len(loc_lines) ELSE 3)
        location == Strip(SubDigitsToEnd(JoinSpace(first3)))
    IN  IF marks = {} THEN PyStr(DefaultLocation)
        ELSE IF builds # {} THEN PyStr(Strip(SubSeq(text, b, CapChain(text, b, 1).last)))
        ELSE IF loc_lines # <<>>
             THEN (IF location = <<>> THEN PyStr(DefaultLocation) ELSE PyStr(location))
        ELSE PyStr(DefaultLocation)

\* (Mon[a-z]*\s+\d{1,2},?\s+\d{4}) begun at i: the index of the year, or 0
DateEnd(s, i) ==
    LET e1 == SpaceRunEnd(s, i + 1)
        d == e1 + 1
        c == IF d < Len(s) /\ s[d + 1] = "," THEN d + 1 ELSE d
        e2 == SpaceRunEnd(s, c + 1)
    IN  IF /\ s[i] \in MonthAtoms
           /\ e1 > i /\ d <= Len(s) /\ s[d] \in DayAtoms
           /\ e2 > c /\ e2 < Len(s) /\ s[e2 + 1] \in YearAtoms
        THEN e2 + 1 ELSE 0

\* (an unmatched date is left as the empty string)
ExtractDateOrEmpty(text) ==
    LET hits == {i \in 1..Len(text) : DateEnd(text, i) > 0}
    IN  IF hits = {} THEN PyStr(<<>>)
        ELSE PyStr(Strip(SubSeq(text, Min(hits), DateEnd(text, Min(hits)))))

ExtractDate(text) ==
    LET hits == {i \in 1..Len(text) : DateEnd(text, i) > 0}
    IN  IF hits = {} THEN PyNone
        ELSE PyStr(Strip(SubSeq(text, Min(hits), DateEnd(text, Min(hits)))))

\* (\d{1,2}:\d{2}\s*[AP]M) begun at i: the index of AM/PM, or 0
TimeEnd(s, i) ==
    LET e == SpaceRunEnd(s, i + 1)
    IN  IF s[i] \in ClockAtoms /\ e < Len(s) /\ s[e + 1] \in MeridiemAtoms
        THEN e + 1 ELSE 0

ExtractTime(text) ==
    LET hits == {i \in 1..Len(text) : TimeEnd(text, i) > 0}
    IN  IF hits = {} THEN PyNone
        ELSE PyStr(Strip(SubSeq(text, Min(hits), TimeEnd(text, Min(hits)))))

\* the event_data dictionary built from the page fetched from event_url
EventData(event_url, page) ==
    [title       |-> ExtractTitle(page),
     time        |-> ExtractTime(page.text),
     location    |-> ExtractLocation(page.text),
     date        |-> ExtractDate(page.text),
     description |-> ExtractDescription(page.text),
     source_url  |-> PyStr(event_url)]

(***************************************************************************)
(* URLs and the calendar page.                                             *)
(***************************************************************************)
\* events_url as the routes and __main__ pass it
events_url == <<"https", "://", "events.bmc.edu", "/", "calendar">>

\* __init__: urlparse(events_url), then scheme://netloc
base_url == <<events_url[1], "://", events_url[3]>>

\* re.compile(r'/event/') finds a match in the href
MatchesEvent(h) ==
    \E i \in 1..(Len(h) - 2) : h[i] = "/" /\ h[i + 1] = "event" /\ h[i + 2] = "/"

\* soup.find_all('a', href=re.compile(r'/event/')): the href of every
\* matching anchor, in document order; page is the hrefs of all anchors
FindEventLinks(page) ==
    SelectSeq(page, LAMBDA a : a.t = "str" /\ MatchesEvent(a.v))

\* event_links[:10]
MaxLinks == 10
\* (the slice is missing)
LimitedUnsliced(links) == links
Limited(links) ==
    SubSeq(links, 1, IF Len(links) < MaxLinks THEN Len(links) ELSE MaxLinks)

\* event_url.startswith('/')
StartsWithSlash(h) == h # <<>> /\ h[1] = "/"

\* (the base URL is put in front of every href)
FullUrlAlways(event_url) == base_url \o event_url

\* full_url = self.base_url + event_url if event_url.startswith('/') else event_url
FullUrl(event_url) ==
    IF StartsWithSlash(event_url) THEN base_url \o event_url ELSE event_url

\* if event_url and event_url not in seen_events
Unseen(event_url, seen) == Truthy(event_url) /\ event_url.v \notin seen

(***************************************************************************)
(* What the campus site serves.                                            *)
(***************************************************************************)
Ids == <<"1", "2", "3", "4", "5", "6", "7", "8", "9", "10", "11">>
Rel(i) == PyStr(<<"/", "event", "/", Ids[i]>>)
Abs(host, i) == PyStr(<<"https", "://", host, "/", "event", "/", Ids[i]>>)

\* a calendar without events, with an anchor that has no href
CalendarNoEvents == <<PyStr(<<"/", "about">>), PyNone>>
\* one event listed twice (image and title link), another once
CalendarSmall == <<Rel(1), PyStr(<<"/", "about">>), Rel(2), Rel(1)>>
\* the same event linked root-relative and absolute, and a foreign event
CalendarMixed == <<Rel(1), Abs("events.bmc.edu", 1), Abs("x.org", 3)>>
\* eleven different events
CalendarEleven == [i \in 1..11 |-> Rel(i)]
\* eleven different events, the first linked twice
CalendarTwelve == <<Rel(1)>> \o [i \in 1..11 |-> Rel(i)]

Calendars == {CalendarNoEvents, CalendarSmall, CalendarMixed, CalendarEleven,
              CalendarTwelve}

Range(f) == {f[i] : i \in DOMAIN f}

\* every URL a scrape of these calendars can request
Urls == {FullUrl(h.v) : h \in UNION {Range(FindEventLinks(c)) : c \in Calendars}}

\* no h2, no text
PageBare == [h2 |-> <<>>, text |-> <<>>]
\* a complete event page
PageFull ==
    [h2 |-> <<[class |-> "nav", text |-> <<"Upcoming">>],
              [class |-> "event-title", text |-> <<" ", "Game", "\n", " ", "Night", " ">>]>>,
     text |-> <<"Game", " ", "Night", "\n", "LOCATION", " ", "Heritage", " ",
                "Hall", " ", "101", "\n", "Dec", " ", "01", ",", " ", "2025",
                " ", "09:00", " ", "AM", "\n", "DESCRIPTION", "\n", "Free",
                " ", "<b>", "pizza", "</b>", "\n", "QUESTIONS", " ", "pizza">>]
\* an empty heading, a location that is only a room number
PageUntitled ==
    [h2 |-> <<[class |-> "", text |-> <<" ">>]>>,
     text |-> <<" ", "\n", "LOCATION", " ", "12", " ", "pizza">>]

DetailPages == {PageBare, PageFull, PageUntitled}

\* the page behind an event URL, by the event's number
PageOf(u) ==
    CASE u[Len(u)] \in {"1", "4", "7", "10"} -> PageFull
      [] u[Len(u)] \in {"2", "5", "8", "11"} -> PageBare
      [] OTHER -> PageUntitled

(***************************************************************************)
(* The weather client: payloads, clean_data, the row save_to_database      *)
(* binds.                                                                  *)
(***************************************************************************)
EmptyDict == PyDict([k \in {} |-> k])

\* d.get(k, default)
Get(d, k, default) == IF k \in DOMAIN d.v THEN d.v[k] ELSE default

\* 'error' in weather_data
HasError(raw) == "error" \in DOMAIN raw.v

UpperAtom(a) ==
    CASE a = "nw" -> "NW" [] a = "n" -> "N" [] a = "sSw" -> "SSW" [] OTHER -> a

\* str.upper()
Upper(s) == [i \in 1..Len(s) |-> UpperAtom(s[i])]

\* ', '.join(list)
RECURSIVE JoinComma(_)
JoinComma(l) ==
    IF l = <<>> THEN <<>>
    ELSE IF Len(l) = 1 THEN l[1].v
    ELSE l[1].v \o <<",", " ">> \o JoinComma(Tail(l))

\* str(x), for what the provider sends in place of the descriptions list
StrOf(x) ==
    CASE x.t = "str"  -> x.v
      [] x.t = "None" -> <<"None">>
      [] x.t = "num"  -> <<ToString(x.v)>>

\* json.dumps(list of strings)
RECURSIVE DumpItems(_)
DumpItems(l) ==
    IF l = <<>> THEN <<>>
    ELSE <<"\"">> \o l[1].v \o <<"\"">>
         \o (IF Len(l) = 1 THEN <<>> ELSE <<",", " ">> \o DumpItems(Tail(l)))
JsonDumps(x) == <<"[">> \o DumpItems(x.v) \o <<"]">>

IsStr(x) == x.t = "str"

\* clean_data raises inside its try block on this payload
CleanRaises(raw) ==
    LET location == IF raw.t = "dict" THEN Get(raw, "location", EmptyDict) ELSE PyNone
        current == IF raw.t = "dict" THEN Get(raw, "current", EmptyDict) ELSE PyNone
    IN  \/ raw.t # "dict"
        \/ location.t # "dict"
        \/ current.t # "dict"
        \/ /\ location.t = "dict" /\ current.t = "dict"
           /\ \/ ~IsStr(Get(location, "name", PyStr(<<>>)))
              \/ ~IsStr(Get(location, "country", PyStr(<<>>)))
              \/ ~IsStr(Get(location, "region", PyStr(<<>>)))
              \/ LET d == Get(current, "weather_descriptions", PyList(<<>>))
                 IN  d.t = "list" /\ \E i \in 1..Len(d.v) : ~IsStr(d.v[i])
              \/ LET w == Get(current, "wind_dir", PyStr(<<>>))
                 IN  Truthy(w) /\ ~IsStr(w)
              \/ LET z == Get(location, "timezone_id", PyStr(<<>>))
                 IN  Truthy(z) /\ ~IsStr(z)

\* (the name is passed through like lat and lon, without a default)
CleanNameRaw(location) == Get(location, "name", PyNone)

\* location_name = re.sub(r'\s+', ' ', location.get('name', '')).strip()
CleanName(location) == PyStr(Collapse(Get(location, "name", PyStr(<<>>)).v))

\* the dictionary clean_data builds when nothing raises
CleanedDict(raw) ==
    LET location == Get(raw, "location", EmptyDict)
        current == Get(raw, "current", EmptyDict)
        weather_descriptions == Get(current, "weather_descriptions", PyList(<<>>))
        weather_icons == Get(current, "weather_icons", PyList(<<>>))
        wind_dir == Get(current, "wind_dir", PyStr(<<>>))
        timezone_id == Get(location, "timezone_id", PyStr(<<>>))
    IN  [location_name |-> CleanName(location),
         country |-> PyStr(Collapse(Get(location, "country", PyStr(<<>>)).v)),
         region |-> PyStr(Collapse(Get(location, "region", PyStr(<<>>)).v)),
         lat |-> Get(location, "lat", PyStr(<<>>)),
         lon |-> Get(location, "lon", PyStr(<<>>)),
         timezone_id |-> IF Truthy(timezone_id) THEN PyStr(Collapse(timezone_id.v))
                         ELSE timezone_id,
         localtime |-> Get(location, "localtime", PyStr(<<>>)),
         temperature |-> Get(current, "temperature", PyNone),
         weather_code |-> Get(current, "weather_code", PyNone),
         weather_icons |-> IF Truthy(weather_icons) THEN PyStr(JsonDumps(weather_icons))
                           ELSE PyNone,
         weather_descriptions |->
             IF weather_descriptions.t = "list"
             THEN PyStr(Collapse(JoinComma(weather_descriptions.v)))
             ELSE PyStr(StrOf(weather_descriptions)),
         wind_speed |-> Get(current, "wind_speed", PyNone),
         wind_degree |-> Get(current, "wind_degree", PyNone),
         wind_dir |-> IF Truthy(wind_dir) THEN PyStr(Strip(Upper(wind_dir.v)))
                      ELSE wind_dir,
         pressure |-> Get(current, "pressure", PyNone),
         precip |-> Get(current, "precip", PyNone),
         humidity |-> Get(current, "humidity", PyNone),
         cloudcover |-> Get(current, "cloudcover", PyNone),
         feelslike |-> Get(current, "feelslike", PyNone),
         uv_index |-> Get(current, "uv_index", PyNone),
         visibility |-> Get(current, "visibility", PyNone),
         observation_time |-> Get(current, "observation_time", PyStr(<<>>))]

\* clean_data: the cleaned dictionary, or None when the try block raised
CleanData(raw) ==
    IF CleanRaises(raw) THEN PyNone ELSE PyDict(CleanedDict(raw))

\* cleaned_data[...] raises on None; sqlite3 binds None, numbers and strings,
\* any other parameter raises
Bindable(x) == x.t \in {"None", "str", "num", "float", "bool"}
BindRaises(cleaned) ==
    \/ cleaned.t # "dict"
    \/ cleaned.t = "dict" /\ \E k \in DOMAIN cleaned.v : ~Bindable(cleaned.v[k])

(***************************************************************************)
(* What the weather provider answers (2xx bodies).                         *)
(***************************************************************************)
LocationNewYork ==
    [name |-> PyStr(<<" ", "New", " ", "\t", "York">>),
     country |-> PyStr(<<"United", " ", "States">>),
     region |-> PyStr(<<"New", " ", "York">>),
     lat |-> PyStr(<<"40.714">>), lon |-> PyStr(<<"-74.006">>),
     timezone_id |-> PyStr(<<"America/New_York">>),
     localtime |-> PyStr(<<"2025-11-21", " ", "10:00">>)]
CurrentSunny ==
    [temperature |-> PyNum(13), weather_code |-> PyNum(113),
     weather_descriptions |-> PyList(<<PyStr(<<"Partly", " ", " ", "cloudy">>),
                                       PyStr(<<"Rain">>)>>),
     weather_icons |-> PyList(<<PyStr(<<"icon.png">>)>>),
     wind_speed |-> PyNum(15), wind_degree |-> PyNum(180),
     wind_dir |-> PyStr(<<"sSw", " ">>), pressure |-> PyNum(1013),
     precip |-> PyNum(0), humidity |-> PyNum(65), cloudcover |-> PyNum(25),
     feelslike |-> PyNum(12), uv_index |-> PyNum(4), visibility |-> PyNum(16),
     observation_time |-> PyStr(<<"02:00", " ", "PM">>)]

WeatherFull == PyDict([location |-> PyDict(LocationNewYork), current |-> PyDict(CurrentSunny)])
WeatherError == PyDict([success |-> PyBool(FALSE), error |-> PyDict([code |-> PyNum(615)])])
WeatherEmpty == EmptyDict
WeatherNoLocation == PyDict([current |-> PyDict(CurrentSunny)])
WeatherNoCurrent == PyDict([location |-> PyDict(LocationNewYork)])
WeatherNullName == PyDict([location |-> PyDict([name |-> PyNone]), current |-> PyDict(CurrentSunny)])
WeatherNullLocation == PyDict([location |-> PyNone, current |-> PyDict(CurrentSunny)])
WeatherCalm ==
    PyDict([location |-> PyDict([name |-> PyStr(<<"Oslo">>), lat |-> PyDict([deg |-> PyNum(59)])]),
            current |-> PyDict([weather_descriptions |-> PyStr(<<"Clear">>),
                                wind_dir |-> PyNone])])
WeatherNoWind ==
    PyDict([location |-> PyDict([name |-> PyStr(<<"Oslo">>)]),
            current |-> PyDict([temperature |-> PyNum(2), weather_icons |-> PyList(<<>>)])])

Payloads == {WeatherFull, WeatherError, WeatherEmpty, WeatherNoLocation,
             WeatherNoCurrent, WeatherNullName, WeatherNullLocation,
             WeatherCalm, WeatherNoWind}

\* a row as db/seed_data.py inserts it: the text columns s, the numeric
\* columns n, precip; weather_icons is not given and stays NULL
SeedRow(s, n, precip) ==
    [location_name |-> PyStr(s[1]), country |-> PyStr(s[2]),
     region |-> PyStr(s[3]), lat |-> PyStr(s[4]), lon |-> PyStr(s[5]),
     timezone_id |-> PyStr(s[6]), localtime |-> PyStr(s[7]),
     temperature |-> PyNum(n[1]), weather_code |-> PyNum(n[2]),
     weather_icons |-> PyNone, weather_descriptions |-> PyStr(s[8]),
     wind_speed |-> PyNum(n[3]), wind_degree |-> PyNum(n[4]),
     wind_dir |-> PyStr(s[9]), pressure |-> PyNum(n[5]),
     precip |-> [t |-> "float", v |-> precip], humidity |-> PyNum(n[6]),
     cloudcover |-> PyNum(n[7]), feelslike |-> PyNum(n[8]),
     uv_index |-> PyNum(n[9]), visibility |-> PyNum(n[10]),
     observation_time |-> PyStr(s[10])]

\* the rows db/seed_data.py leaves in api_data
SeedApiData ==
    <<SeedRow(<<<<"New", " ", "York">>,
                <<"United", " ", "States", " ", "of", " ", "America">>,
                <<"New", " ", "York">>, <<"40.714">>, <<"-74.006">>,
                <<"America/New_York">>, <<"2025-11-21", " ", "10:00">>,
                <<"Sunny">>, <<"S">>, <<"02:00", " ", "PM">>>>,
              <<13, 113, 15, 180, 1013, 65, 25, 12, 4, 16>>, "0.0"),
      SeedRow(<<<<"London">>, <<"United", " ", "Kingdom">>,
                <<"City", " ", "of", " ", "London">>, <<"51.517">>, <<"-0.106">>,
                <<"Europe/London">>, <<"2025-11-21", " ", "15:00">>,
                <<"Partly", " ", "Cloudy">>, <<"W">>, <<"03:00", " ", "PM">>>>,
              <<8, 116, 20, 270, 1010, 75, 50, 6, 2, 10>>, "0.5")>>

\* the batches a caller hands to save_events_to_db on its own: lists of
\* records as scrape_events returns them
Batches(pages) ==
    LET E(i) == EventData(FullUrl(Rel(i).v), pages[FullUrl(Rel(i).v)])
    IN  {<<>>, <<E(1)>>, <<E(2), E(1)>>}

(***************************************************************************)
(* The calls.  One caller at a time (the pipelines are synchronous); a     *)
(* call is a sequence of steps separated by its HTTP requests and its      *)
(* database statements.                                                    *)
(***************************************************************************)
weather_url == <<"http", "://", "api.weatherstack.com", "/", "current">>

scrapeLocals == <<event_links, idx, seen_events, events, full_url, detail>>
saveLocals == <<sidx, txn, saved>>
weatherLocals == <<weather_data, cleaned_data>>
tables == <<api_data, external_events>>
environment == <<site, web, provider>>

NewRows == Len(api_data) - Len(SeedApiData) + Len(external_events)
CanCall == pc \in {"Idle", "Done"} /\ NewRows <= MaxStored

\* every call begins with fresh locals
Begin(e) ==
    /\ entry' = e
    /\ ret' = PyNone
    /\ event_links' = <<>> /\ idx' = 0 /\ seen_events' = {}
    /\ full_url' = <<>> /\ response' = <<>> /\ detail' = <<>>
    /\ txn' = <<>> /\ saved' = PyNone
    /\ weather_data' = PyNone /\ cleaned_data' = PyNone
    /\ failures' = 0
    /\ db0' = [api_data |-> api_data, external_events |-> external_events]
    /\ UNCHANGED <<tables, environment>>

\* scrape_events(), run(): requests.get(url) is sent
CallScrape(e) ==
    /\ CanCall
    /\ Begin(e)
    /\ events' = <<>>
    /\ sidx' = 0
    /\ pc' = "FetchingCalendar"
    /\ log' = <<[op |-> "GET", url |-> events_url]>>

\* scrape_events returns evs to its caller: run() saves a non-empty list
Return(evs) ==
    IF entry = "run" /\ evs # <<>>
    THEN /\ pc' = "Saving"
         /\ sidx' = 1 /\ txn' = <<>> /\ saved' = PyNone
         /\ ret' = ret
    ELSE /\ pc' = "Done"
         /\ ret' = IF entry = "run" THEN PyNone ELSE PyList(evs)
         /\ UNCHANGED saveLocals

\* (raise_for_status is missing: the body of the failed response is parsed)
CalendarFailsParsed ==
    /\ pc = "FetchingCalendar"
    /\ log' = Append(log, [op |-> "fail", url |-> events_url])
    /\ \E page \in site : response' = page
    /\ pc' = "ExtractingLinks"
    /\ UNCHANGED <<entry, ret, scrapeLocals, saveLocals, weatherLocals, tables,
                   environment, failures, db0>>

\* the calendar request raises (transport failure, raise_for_status):
\* except Exception: return []
CalendarFails ==
    /\ pc = "FetchingCalendar"
    /\ log' = Append(log, [op |-> "fail", url |-> events_url])
    /\ events' = <<>>
    /\ Return(<<>>)
    /\ UNCHANGED <<entry, event_links, idx, seen_events, full_url, detail,
                   response, weatherLocals, tables, environment, failures, db0>>

\* the calendar request succeeds
CalendarArrives ==
    /\ pc = "FetchingCalendar"
    /\ \E page \in site : response' = page
    /\ pc' = "ExtractingLinks"
    /\ log' = Append(log, [op |-> "ok", url |-> events_url])
    /\ UNCHANGED <<entry, ret, scrapeLocals, saveLocals, weatherLocals, tables,
                   environment, failures, db0>>

\* soup.find_all, seen_events = set(), and the loop is entered
ExtractLinks ==
    /\ pc = "ExtractingLinks"
    /\ event_links' = FindEventLinks(response)
    /\ events' = <<>>
    /\ seen_events' = {}
    /\ idx' = 1
    /\ pc' = "NextLink"
    /\ UNCHANGED <<entry, ret, full_url, detail, response, saveLocals,
                   weatherLocals, tables, environment, log, failures, db0>>

\* what the loop remembers of the link it is about to process
Remember(seen, event_url) == seen \cup {event_url}

\* one turn of: for link in event_links[:10]
NextLink ==
    /\ pc = "NextLink"
    /\ idx <= Len(Limited(event_links))
    /\ LET event_url == Limited(event_links)[idx]
       IN  IF Unseen(event_url, seen_events)
           THEN /\ seen_events' = Remember(seen_events, event_url.v)
                /\ full_url' = FullUrl(event_url.v)
                /\ pc' = "FetchingDetail"
                /\ log' = Append(log, [op |-> "GET", url |-> full_url'])
                /\ UNCHANGED idx
           ELSE /\ idx' = idx + 1
                /\ UNCHANGED <<seen_events, full_url, pc, log>>
    /\ UNCHANGED <<entry, ret, event_links, events, detail, response, saveLocals,
                   weatherLocals, tables, environment, failures, db0>>

\* the loop is exhausted: return events
LoopEnds ==
    /\ pc = "NextLink"
    /\ idx > Len(Limited(event_links))
    /\ Return(events)
    /\ UNCHANGED <<entry, scrapeLocals, response, weatherLocals, tables,
                   environment, log, failures, db0>>

\* (_fetch_event_details lets the exception out: scrape_events returns [])
DetailFailsAborts ==
    /\ pc = "FetchingDetail"
    /\ failures < MaxFailures
    /\ failures' = failures + 1
    /\ log' = Append(log, [op |-> "fail", url |-> full_url])
    /\ events' = <<>>
    /\ Return(<<>>)
    /\ UNCHANGED <<entry, event_links, idx, seen_events, full_url, detail,
                   response, weatherLocals, tables, environment, db0>>

\* (a failed detail request is sent once more)
DetailFailsRetries ==
    /\ pc = "FetchingDetail"
    /\ failures < MaxFailures
    /\ failures' = failures + 1
    /\ log' = log \o <<[op |-> "fail", url |-> full_url],
                       [op |-> "GET", url |-> full_url]>>
    /\ UNCHANGED <<pc, entry, ret, event_links, idx, seen_events, events,
                   full_url, detail, response, saveLocals, weatherLocals,
                   tables, environment, db0>>

\* the detail request raises: _fetch_event_details returns None, which
\* "if event_details:" skips
DetailFails ==
    /\ pc = "FetchingDetail"
    /\ failures < MaxFailures
    /\ failures' = failures + 1
    /\ log' = Append(log, [op |-> "fail", url |-> full_url])
    /\ idx' = idx + 1
    /\ pc' = "NextLink"
    /\ UNCHANGED <<entry, ret, event_links, seen_events, events, full_url,
                   detail, response, saveLocals, weatherLocals, tables,
                   environment, db0>>

\* (the page is put aside and the next link is taken up before its fields
\* are extracted)
DetailArrivesDeferred ==
    /\ pc = "FetchingDetail"
    /\ detail' = web[full_url]
    /\ idx' = idx + 1
    /\ pc' = "NextLink"
    /\ log' = Append(log, [op |-> "ok", url |-> full_url])
    /\ UNCHANGED <<entry, ret, event_links, seen_events, events, full_url,
                   response, saveLocals, weatherLocals, tables, environment,
                   failures, db0>>

\* the detail request succeeds
DetailArrives ==
    /\ pc = "FetchingDetail"
    /\ detail' = web[full_url]
    /\ pc' = "ExtractingFields"
    /\ log' = Append(log, [op |-> "ok", url |-> full_url])
    /\ UNCHANGED <<entry, ret, event_links, idx, seen_events, events, full_url,
                   response, saveLocals, weatherLocals, tables, environment,
                   failures, db0>>

\* the fields are extracted; if event_details: events.append(event_details)
ExtractFields ==
    /\ pc = "ExtractingFields"
    /\ LET event_details == PyDict(EventData(full_url, detail))
       IN  events' = IF Truthy(event_details) THEN Append(events, event_details.v)
                     ELSE events
    /\ idx' = idx + 1
    /\ pc' = "NextLink"
    /\ UNCHANGED <<entry, ret, event_links, seen_events, full_url, detail,
                   response, saveLocals, weatherLocals, tables, environment, log,
                   failures, db0>>

\* save_events_to_db(batch) called on its own
CallSaveEvents ==
    /\ CanCall
    /\ Begin("save_events_to_db")
    /\ \E batch \in Batches(web) : events' = batch
    /\ pc' = "Saving"
    /\ sidx' = 1
    /\ log' = <<>>

\* cursor.execute(INSERT ...) for the next event of the batch; the row is
\* on the connection, not yet in the table
InsertEvent ==
    /\ pc = "Saving"
    /\ sidx <= Len(events)
    /\ txn' = Append(txn, events[sidx])
    /\ sidx' = sidx + 1
    /\ log' = Append(log, [op |-> "INSERT", row |-> events[sidx]])
    /\ UNCHANGED <<pc, entry, ret, saved, scrapeLocals, response, weatherLocals,
                   tables, environment, failures, db0>>

\* (each INSERT is committed on its own)
RolledBackKeeps(table, pending) == table \o pending

\* what the table holds once the connection is dropped without a commit:
\* sqlite rolls the open transaction back
RolledBack(table, pending) == table

\* connect, an execute or the commit raises: except Exception: return False.
\* conn is never committed or closed; it is dropped with the frame.
SaveEventsFails ==
    /\ pc = "Saving"
    /\ external_events' = RolledBack(external_events, txn)
    /\ txn' = <<>>
    /\ saved' = PyBool(FALSE)
    /\ ret' = IF entry = "run" THEN PyNone ELSE PyBool(FALSE)
    /\ pc' = "Done"
    /\ log' = Append(log, [op |-> "raise", at |-> sidx])
    /\ UNCHANGED <<entry, scrapeLocals, response, sidx, weatherLocals, api_data,
                   environment, failures, db0>>

\* (the table is rewritten from the batch)
CommittedReplaces(table, pending) == pending

\* what the table holds after conn.commit()
Committed(table, pending) == table \o pending

\* (an empty list is reported as a failure)
CommitEventsRejectsEmpty ==
    /\ pc = "Saving"
    /\ sidx > Len(events)
    /\ external_events' = Committed(external_events, txn)
    /\ txn' = <<>>
    /\ saved' = PyBool(events # <<>>)
    /\ ret' = IF entry = "run" THEN PyNone ELSE saved'
    /\ pc' = "Done"
    /\ log' = Append(log, [op |-> "COMMIT"])
    /\ UNCHANGED <<entry, scrapeLocals, response, sidx, weatherLocals, api_data,
                   environment, failures, db0>>

\* conn.commit(); conn.close(); return True
CommitEvents ==
    /\ pc = "Saving"
    /\ sidx > Len(events)
    /\ external_events' = Committed(external_events, txn)
    /\ txn' = <<>>
    /\ saved' = PyBool(TRUE)
    /\ ret' = IF entry = "run" THEN PyNone ELSE PyBool(TRUE)
    /\ pc' = "Done"
    /\ log' = Append(log, [op |-> "COMMIT"])
    /\ UNCHANGED <<entry, scrapeLocals, response, sidx, weatherLocals, api_data,
                   environment, failures, db0>>

\* get_and_store_weather(location): fetch_weather sends its request
CallGetAndStoreWeather ==
    /\ CanCall
    /\ Begin("get_and_store_weather")
    /\ events' = <<>>
    /\ sidx' = 0
    /\ pc' = "FetchingWeather"
    /\ log' = <<[op |-> "call", fn |-> "fetch_weather"],
                [op |-> "GET", url |-> weather_url]>>

\* what the provider may answer: no usable answer (transport failure,
\* non-2xx), a 2xx body that is not JSON, or a 2xx JSON body
Answers ==
    {[kind |-> "failed"], [kind |-> "text"]}
        \cup {[kind |-> "json", body |-> raw] : raw \in provider}

\* (the check for the provider's error indicator is missing)
FetchWeatherKeepsError(answer) ==
    IF answer.kind = "json" THEN answer.body ELSE PyNone

\* fetch_weather's return value, for the answers it handles itself
FetchWeather(answer) ==
    IF answer.kind = "json" /\ ~HasError(answer.body) THEN answer.body ELSE PyNone

\* if not weather_data: return False
FetchFailed(fetched) == ~Truthy(fetched)

\* fetch_weather returns
WeatherAnswers ==
    /\ pc = "FetchingWeather"
    /\ \E answer \in Answers :
          /\ weather_data' = FetchWeather(answer)
          /\ response' = answer
    /\ IF FetchFailed(weather_data')
       THEN pc' = "Done" /\ ret' = PyBool(FALSE)
       ELSE pc' = "Cleaning" /\ ret' = ret
    /\ log' = Append(log, [op |-> "return", fn |-> "fetch_weather"])
    /\ UNCHANGED <<entry, scrapeLocals, saveLocals, cleaned_data, tables,
                   environment, failures, db0>>

\* response.json() raises on a body that is not JSON; where the installed
\* requests does not raise it as a RequestException, fetch_weather does not
\* catch it and the call ends with the exception
WeatherRaises ==
    /\ pc = "FetchingWeather"
    /\ response' = [kind |-> "text"]
    /\ pc' = "Done"
    /\ ret' = [t |-> "raised"]
    /\ log' = Append(log, [op |-> "raise", at |-> 0])
    /\ UNCHANGED <<entry, scrapeLocals, saveLocals, weatherLocals, tables,
                   environment, failures, db0>>

\* if not cleaned_data: return False
CleanFailed(cleaned) == ~Truthy(cleaned)

\* clean_data(weather_data)
Clean ==
    /\ pc = "Cleaning"
    /\ cleaned_data' = CleanData(weather_data)
    /\ IF CleanFailed(cleaned_data')
       THEN pc' = "Done" /\ ret' = PyBool(FALSE)
       ELSE pc' = "StoringWeather" /\ ret' = ret
    /\ log' = Append(log, [op |-> "call", fn |-> "clean_data"])
    /\ UNCHANGED <<entry, scrapeLocals, response, saveLocals, weather_data,
                   tables, environment, failures, db0>>

\* the table after the INSERT of save_to_database is committed
Inserted(table, cleaned) == Append(table, cleaned.v)

\* save_to_database(cleaned_data): execute, commit, close, return True
StoreWeather ==
    /\ pc = "StoringWeather"
    /\ ~BindRaises(cleaned_data)
    /\ api_data' = Inserted(api_data, cleaned_data)
    /\ saved' = PyBool(TRUE)
    /\ ret' = saved'
    /\ pc' = "Done"
    /\ log' = log \o <<[op |-> "call", fn |-> "save_to_database"],
                       [op |-> "INSERT", row |-> cleaned_data.v], [op |-> "COMMIT"]>>
    /\ UNCHANGED <<entry, scrapeLocals, response, sidx, txn, weatherLocals,
                   external_events, environment, failures, db0>>

\* (the statement after conn.commit() raises: the row is in, False is returned)
StoreWeatherFailsLate ==
    /\ pc = "StoringWeather"
    /\ ~BindRaises(cleaned_data)
    /\ api_data' = Append(api_data, cleaned_data.v)
    /\ saved' = PyBool(FALSE)
    /\ ret' = saved'
    /\ pc' = "Done"
    /\ log' = log \o <<[op |-> "call", fn |-> "save_to_database"],
                       [op |-> "raise", at |-> 1]>>
    /\ UNCHANGED <<entry, scrapeLocals, response, sidx, txn, weatherLocals,
                   external_events, environment, failures, db0>>

\* save_to_database(cleaned_data): connect, execute or commit raises;
\* except Exception: return False
StoreWeatherFails ==
    /\ pc = "StoringWeather"
    /\ saved' = PyBool(FALSE)
    /\ ret' = saved'
    /\ pc' = "Done"
    /\ log' = log \o <<[op |-> "call", fn |-> "save_to_database"],
                       [op |-> "raise", at |-> 1]>>
    /\ UNCHANGED <<entry, scrapeLocals, response, sidx, txn, weatherLocals,
                   tables, environment, failures, db0>>

(***************************************************************************)
(* The specification.                                                      *)
(***************************************************************************)
\* the state once db/seed_data.py has run and no pipeline has been called
InitProgram ==
    /\ pc = "Idle"
    /\ entry = "none"
    /\ ret = PyNone
    /\ event_links = <<>> /\ idx = 0 /\ seen_events = {} /\ events = <<>>
    /\ full_url = <<>> /\ response = <<>> /\ detail = <<>>
    /\ sidx = 0 /\ txn = <<>> /\ saved = PyNone
    /\ weather_data = PyNone /\ cleaned_data = PyNone
    /\ api_data = SeedApiData
    /\ external_events = <<>>
    /\ log = <<>> /\ failures = 0
    /\ db0 = [api_data |-> SeedApiData, external_events |-> <<>>]

Init ==
    /\ InitProgram
    /\ site = Calendars
    /\ web = [u \in Urls |-> PageOf(u)]
    /\ provider = Payloads

Next ==
    \/ CallScrape("scrape_events")
    \/ CallScrape("run")
    \/ CalendarFails
    \/ CalendarArrives
    \/ ExtractLinks
    \/ NextLink
    \/ LoopEnds
    \/ DetailFails
    \/ DetailArrives
    \/ ExtractFields
    \/ CallSaveEvents
    \/ InsertEvent
    \/ SaveEventsFails
    \/ CommitEvents
    \/ CallGetAndStoreWeather
    \/ WeatherAnswers
    \/ WeatherRaises
    \/ Clean
    \/ StoreWeather
    \/ StoreWeatherFails

Spec == Init /\ [][Next]_vars

(***************************************************************************)
(* The same calls over every small page and payload: each behaviour has    *)
(* one detail page, drawn from all texts of up to MaxText atoms under each *)
(* of the headings and from the pages built of blocks, or one payload,     *)
(* drawn from all combinations of                                          *)
(* present, absent, null and ill-typed location, name and current; every   *)
(* request and every statement succeeds.                                   *)
(***************************************************************************)
MaxText == 3
TextAtoms == {"LOCATION", " ", "\n", "12", "Hall", "pizza"}
Texts == UNION {[1..n -> TextAtoms] : n \in 0..MaxText}
Headings ==
    {<<>>,
     <<[class |-> "", text |-> <<>>]>>,
     <<[class |-> "Title", text |-> <<" ", "\n">>]>>,
     <<[class |-> "", text |-> <<"Game">>],
       [class |-> "event-title", text |-> <<" ", "Game", "\n", "Night">>]>>}
GenPages == {[h2 |-> h, text |-> t] : h \in Headings, t \in Texts}

\* pages put together from a date, a time, a location and a description
\* block, each of them present in one of its forms or absent, with the
\* location block before or after date and time
DateBlocks ==
    {<<>>, <<"Dec", " ", "01", ",", " ", "2025", "\n">>,
     <<"dec", " ", "9", " ", "2025", "\n">>}
TimeBlocks ==
    {<<>>, <<"09:00", " ", "AM", "\n">>, <<"9:00", "PM", "\n">>,
     <<"9:00", " ", "pizza", "\n">>}
LocationBlocks ==
    {<<>>, <<"LOCATION", " ", "Heritage", " ", "Hall", " ", "101", "\n">>,
     <<"Location", "\n", "Student", " ", "Center", "\n">>,
     <<"LOCATION", " ", "12", " ", "pizza", "\n">>}
DescriptionBlocks ==
    {<<>>,
     <<"DESCRIPTION", "\n", "Free", " ", "<b>", "pizza", "</b>", "\n",
       "QUESTIONS", " ", "pizza">>,
     <<"DESCRIPTION", " ", "Free", " ", " ", "pizza", " ", "upcoming", " ",
       "Game", "\n">>,
     <<"Description", " ", "pizza", " ", "Interested", " ", "pizza">>,
     <<"DESCRIPTION", " ", "x{300}", " ", "x{300}">>}
BlockHeadings ==
    {<<>>,
     <<[class |-> "", text |-> <<"Game">>],
       [class |-> "event-title", text |-> <<" ", "Game", "\n", "Night">>]>>}
BlockPages ==
    {[h2 |-> h, text |-> t] :
        h \in BlockHeadings,
        t \in UNION {{d \o c \o l \o s, l \o d \o c \o s} :
                        d \in DateBlocks, c \in TimeBlocks,
                        l \in LocationBlocks, s \in DescriptionBlocks}}

\* a dictionary with the keys of keys that have a value
DictOf(keys, value(_)) == PyDict([k \in keys |-> value(k)])
Names == {PyNone, PyStr(<<>>), PyStr(<<" ", "Oslo", "\t", " ">>), PyNum(5),
          PyList(<<>>)}
Locations ==
    {PyNone, EmptyDict, PyDict([lat |-> PyStr(<<"59.9">>)])}
        \cup {PyDict([name |-> n]) : n \in Names}
Currents == {PyNone, EmptyDict, PyDict(CurrentSunny)}
GenPayloads ==
    {DictOf(keys, LAMBDA k : CASE k = "location" -> l
                               [] k = "current" -> c
                               [] k = "error" -> PyDict([code |-> PyNum(615)])) :
        keys \in SUBSET {"location", "current", "error"},
        l \in Locations, c \in Currents}

InitFields ==
    /\ InitProgram
    /\ site = {<<Rel(1)>>}
    /\ \/ /\ \E page \in GenPages \cup BlockPages : web = [u \in Urls |-> page]
          /\ provider = {WeatherNoLocation}
       \/ /\ web = [u \in Urls |-> PageBare]
          /\ \E raw \in GenPayloads : provider = {raw}

NextFields ==
    \/ CallScrape("run")
    \/ CalendarArrives
    \/ ExtractLinks
    \/ NextLink
    \/ LoopEnds
    \/ DetailArrives
    \/ ExtractFields
    \/ InsertEvent
    \/ CommitEvents
    \/ CallGetAndStoreWeather
    \/ WeatherAnswers
    \/ Clean
    \/ StoreWeather

SpecFields == InitFields /\ [][NextFields]_vars

(***************************************************************************)
(* The scraper on its own, over the smaller calendars, with the progress   *)
(* the code has: every request returns or raises (the detail request has a *)
(* timeout), every statement returns or raises, and the interpreter goes   *)
(* on to the next statement.                                               *)
(***************************************************************************)
\* a page with a title and nothing to extract from its text
PagePlain ==
    [h2 |-> <<[class |-> "event-title", text |-> <<"Game", " ", "Night">>]>>,
     text |-> <<"Game", " ", "Night", "\n", "pizza">>]

InitScrape ==
    /\ InitProgram
    /\ site = {CalendarNoEvents, CalendarSmall, CalendarMixed}
    /\ web = [u \in Urls |-> IF u[Len(u)] = "2" THEN PageBare ELSE PagePlain]
    /\ provider = Payloads

\* a step of the running scrape
ScrapeStep ==
    \/ CalendarFails
    \/ CalendarArrives
    \/ ExtractLinks
    \/ NextLink
    \/ LoopEnds
    \/ DetailFails
    \/ DetailArrives
    \/ ExtractFields
    \/ InsertEvent
    \/ SaveEventsFails
    \/ CommitEvents

NextScrape ==
    \/ CallScrape("scrape_events")
    \/ CallScrape("run")
    \/ ScrapeStep

SpecScrape == InitScrape /\ [][NextScrape]_vars /\ WF_vars(ScrapeStep)

(***************************************************************************)
(* What the running call has done, read off its history.                   *)
(***************************************************************************)
IsScrape == entry \in {"scrape_events", "run"}
\* scrape_events has returned to its caller
ScrapeReturned == IsScrape /\ pc \in {"Saving", "Done"}
CalendarOk == IsScrape /\ Len(log) >= 2 /\ log[2].op = "ok"
CalendarFailed == IsScrape /\ Len(log) >= 2 /\ log[2].op = "fail"

\* the detail requests sent, and the answers to them, in order
DetailRequests ==
    SelectSeq(log, LAMBDA e : e.op = "GET" /\ e.url \notin {events_url, weather_url})
DetailAnswers ==
    SelectSeq(log, LAMBDA e : e.op \in {"ok", "fail"} /\ e.url # events_url)
UrlsOf(entries) == [i \in 1..Len(entries) |-> entries[i].url]

\* s without the later repetitions of its elements
RECURSIVE Distinct(_, _)
Distinct(s, seen) ==
    IF s = <<>> THEN <<>>
    ELSE IF Head(s) \in seen THEN Distinct(Tail(s), seen)
    ELSE <<Head(s)>> \o Distinct(Tail(s), seen \cup {Head(s)})

FirstN(s, n) == SubSeq(s, 1, IF Len(s) < n THEN Len(s) ELSE n)

\* the hrefs of the '/event/' anchors of a calendar page, in document order
EventHrefs(page) ==
    LET anchors == SelectSeq(page, LAMBDA a : a.t = "str" /\ MatchesEvent(a.v))
    IN  [i \in 1..Len(anchors) |-> anchors[i].v]

Resolved(hrefs) ==
    [i \in 1..Len(hrefs) |->
        IF hrefs[i][1] = "/" THEN <<"https", "://", "events.bmc.edu">> \o hrefs[i]
        ELSE hrefs[i]]

\* the candidates of a page: the distinct hrefs among its first ten anchors
Candidates(page) == Distinct(FirstN(EventHrefs(page), 10), {})

\* one record per answered request, in order
RECURSIVE RecordsOf(_)
RecordsOf(answers) ==
    IF answers = <<>> THEN <<>>
    ELSE IF Head(answers).op = "ok"
         THEN <<EventData(Head(answers).url, web[Head(answers).url])>>
              \o RecordsOf(Tail(answers))
         ELSE RecordsOf(Tail(answers))

(***************************************************************************)
(* C1: a failing detail request never aborts the batch.  When              *)
(* scrape_events returns after a successful calendar fetch, every          *)
(* candidate link has been requested, in candidate order, whatever subset  *)
(* of the requests failed, and the returned list holds exactly one record  *)
(* per request that succeeded, in that order.                              *)
(***************************************************************************)
C1_FailedDetailIsSkipped ==
    (ScrapeReturned /\ CalendarOk) =>
        /\ UrlsOf(DetailRequests) = Resolved(Candidates(response))
        /\ UrlsOf(DetailAnswers) = UrlsOf(DetailRequests)
        /\ events = RecordsOf(DetailAnswers)

\* a scrape returned records fetched after an earlier request had failed
C1_Witness ==
    /\ ScrapeReturned /\ CalendarOk
    /\ \E i, j \in 1..Len(DetailAnswers) :
          i < j /\ DetailAnswers[i].op = "fail" /\ DetailAnswers[j].op = "ok"
    /\ events # <<>>

(***************************************************************************)
(* C2: when the calendar request fails the scrape ends with an empty       *)
(* list, no detail page is requested and the run writes nothing to         *)
(* external_events.                                                        *)
(***************************************************************************)
C2_CalendarFailureAborts ==
    CalendarFailed =>
        /\ pc = "Done"
        /\ events = <<>>
        /\ entry = "scrape_events" => ret = PyList(<<>>)
        /\ DetailRequests = <<>>
        /\ \A i \in 1..Len(log) : log[i].op \notin {"INSERT", "COMMIT"}
        /\ txn = <<>>
        /\ external_events = db0.external_events

\* run() has ended after its calendar request failed
C2_Witness == CalendarFailed /\ entry = "run" /\ pc = "Done"

(***************************************************************************)
(* C3: one scrape requests at most 10 detail pages and returns at most 10  *)
(* records, however many '/event/' anchors the page has, and the sequence  *)
(* of candidates it works through is a function of the page alone: what    *)
(* has been requested is always a prefix of the page's candidates.         *)
(***************************************************************************)
C3_AtMostTenAndDetermined ==
    IsScrape =>
        /\ Len(DetailRequests) <= 10
        /\ Len(events) <= 10
        /\ CalendarOk =>
              /\ Len(DetailRequests) <= Len(Candidates(response))
              /\ UrlsOf(DetailRequests)
                    = FirstN(Resolved(Candidates(response)), Len(DetailRequests))

\* a page with more than ten event anchors was scraped and ten were requested
C3_Witness ==
    /\ ScrapeReturned /\ CalendarOk
    /\ Len(EventHrefs(response)) > 10
    /\ Len(DetailRequests) = 10

(***************************************************************************)
(* C4 (as claimed): the candidates are the first 10 distinct hrefs of the  *)
(* page's '/event/' anchors, in order of first occurrence; a repeated      *)
(* anchor uses up none of the 10 slots.                                    *)
(***************************************************************************)
C4_FirstTenDistinct ==
    (ScrapeReturned /\ CalendarOk) =>
        UrlsOf(DetailRequests)
            = Resolved(FirstN(Distinct(EventHrefs(response), {}), 10))

(***************************************************************************)
(* C5 (as claimed): no two records returned by one scrape_events call      *)
(* have the same source_url.                                               *)
(***************************************************************************)
C5_SourceUrlUnique ==
    IsScrape =>
        \A i, j \in 1..Len(events) :
            i # j => events[i].source_url # events[j].source_url

IsWeather == entry = "get_and_store_weather"
\* the stages get_and_store_weather has called, in order
Stages ==
    LET calls == SelectSeq(log, LAMBDA e : e.op = "call")
    IN  [i \in 1..Len(calls) |-> calls[i].fn]
\* the provider's answer has arrived
Answered == IsWeather /\ pc # "FetchingWeather"
\* the answer is a transport failure, a non-2xx, or a body with the
\* provider's error indicator
FailedAnswer ==
    \/ response.kind = "failed"
    \/ response.kind = "json" /\ "error" \in DOMAIN response.body.v
IsPrefix(s, t) == Len(s) <= Len(t) /\ s = SubSeq(t, 1, Len(s))
Inserts == SelectSeq(log, LAMBDA e : e.op = "INSERT")

(***************************************************************************)
(* C6: get_and_store_weather calls fetch_weather, clean_data and           *)
(* save_to_database in that order and stops at the first stage that        *)
(* fails: after a failed fetch neither clean_data nor save_to_database is  *)
(* called, after a failed clean_data save_to_database is not called, and   *)
(* the call returns False.                                                 *)
(***************************************************************************)
C6_StopsAtFirstFailure ==
    IsWeather =>
        /\ IsPrefix(Stages, <<"fetch_weather", "clean_data", "save_to_database">>)
        /\ (Answered /\ FailedAnswer) =>
              /\ Stages = <<"fetch_weather">>
              /\ pc = "Done" /\ ret = PyBool(FALSE)
              /\ Inserts = <<>>
        /\ (Len(Stages) >= 2 /\ cleaned_data.t = "None") =>
              /\ Stages = <<"fetch_weather", "clean_data">>
              /\ pc = "Done" /\ ret = PyBool(FALSE)
              /\ Inserts = <<>>

\* the provider answered 2xx with its error indicator and the call has ended
C6_Witness ==
    /\ Answered /\ pc = "Done"
    /\ response.kind = "json" /\ "error" \in DOMAIN response.body.v

\* clean_data failed and the call has ended
C6_CleanFailedReached ==
    IsWeather /\ pc = "Done" /\ Len(Stages) = 2 /\ cleaned_data.t = "None"

(***************************************************************************)
(* C7: get_and_store_weather returns True exactly when the call appended   *)
(* exactly one row to api_data; when it returns False, and while it runs,  *)
(* api_data is what it was before the call.                                *)
(***************************************************************************)
C7_TrueIffOneRowAppended ==
    IsWeather =>
        /\ pc # "Done" => api_data = db0.api_data
        /\ pc = "Done" =>
              /\ (ret.t = "bool" /\ ret.v) <=>
                    /\ Len(api_data) = Len(db0.api_data) + 1
                    /\ SubSeq(api_data, 1, Len(db0.api_data)) = db0.api_data
              /\ ~(ret.t = "bool" /\ ret.v) => api_data = db0.api_data
        /\ external_events = db0.external_events

\* a call has returned True
C7_Witness == IsWeather /\ pc = "Done" /\ ret.t = "bool" /\ ret.v

(***************************************************************************)
(* C8: save_events_to_db is all-or-nothing.  Once an insert (or the        *)
(* connect or the commit) has failed, no further insert is attempted, the  *)
(* call returns False and external_events holds none of the batch, the     *)
(* rows inserted before the failure included; when it returns True         *)
(* external_events holds the whole batch, appended in batch order.         *)
(***************************************************************************)
C8_BatchAllOrNothing ==
    (entry \in {"run", "save_events_to_db"}) =>
        /\ pc = "Saving" => external_events = db0.external_events
        /\ saved = PyBool(FALSE) =>
              /\ pc = "Done"
              /\ log[Len(log)].op = "raise"
              /\ Len(Inserts) = log[Len(log)].at - 1
              /\ external_events = db0.external_events
        /\ saved = PyBool(TRUE) =>
              /\ pc = "Done"
              /\ [i \in 1..Len(Inserts) |-> Inserts[i].row] = events
              /\ external_events = db0.external_events \o events

\* an insert failed after an earlier insert of the same batch had succeeded
C8_Witness ==
    /\ entry \in {"run", "save_events_to_db"}
    /\ saved = PyBool(FALSE)
    /\ Len(Inserts) >= 1 /\ Len(Inserts) < Len(events)

(***************************************************************************)
(* C9: both tables are append-only.  Every step of every call leaves the   *)
(* rows that were in api_data and external_events in place, unchanged and  *)
(* in order: the old content is a prefix of the new.                       *)
(***************************************************************************)
C9_AppendOnly ==
    [][/\ IsPrefix(api_data, api_data')
       /\ IsPrefix(external_events, external_events')]_vars

\* a call added rows to an external_events that already held rows
C9_Witness ==
    /\ db0.external_events # <<>>
    /\ Len(external_events) > Len(db0.external_events)

(***************************************************************************)
(* C10: every row the pipelines persist has a non-null key text field:     *)
(* title and location of every external_events row, location_name of       *)
(* every api_data row, are strings, never None.                            *)
(***************************************************************************)
C10_KeyFieldsNotNull ==
    /\ \A i \in 1..Len(external_events) :
          /\ external_events[i].title.t = "str"
          /\ external_events[i].location.t = "str"
    /\ \A i \in 1..Len(api_data) : api_data[i].location_name.t = "str"

\* a stored event carries both defaults and a stored weather row the empty
\* name that stands in for a missing one
C10_Witness ==
    /\ \E i \in 1..Len(external_events) :
          /\ external_events[i].title = PyStr(DefaultTitle)
          /\ external_events[i].location = PyStr(DefaultLocation)
    /\ \E i \in 1..Len(api_data) : api_data[i].location_name = PyStr(<<>>)

(***************************************************************************)
(* C11 (as claimed): clean_data's wind_dir is the payload's wind direction *)
(* uppercased and trimmed when the payload has one, and None, not the      *)
(* empty string, when the payload has no wind direction.                   *)
(***************************************************************************)
C11_WindDirOrNone ==
    (IsWeather /\ cleaned_data.t = "dict") =>
        LET current == Get(weather_data, "current", EmptyDict)
        IN  IF "wind_dir" \in DOMAIN current.v /\ current.v["wind_dir"].t = "str"
            THEN cleaned_data.v.wind_dir = PyStr(Strip(Upper(current.v["wind_dir"].v)))
            ELSE cleaned_data.v.wind_dir = PyNone

(***************************************************************************)
(* C12: while a detail page is fetched and read, the URL requested is the  *)
(* href with scheme and host of the calendar URL put in front when the     *)
(* href starts with '/', and the href itself otherwise; the record         *)
(* appended for an answered request has that URL as its source_url.        *)
(***************************************************************************)
C12_UrlResolution ==
    IsScrape =>
        /\ pc \in {"FetchingDetail", "ExtractingFields"} =>
              LET href == Limited(event_links)[idx].v
              IN  /\ href[1] = "/" =>
                        full_url = <<"https", "://", "events.bmc.edu">> \o href
                  /\ href[1] # "/" => full_url = href
                  /\ log[Len(log)].url = full_url
        /\ (pc = "NextLink" /\ DetailAnswers # <<>> /\ log[Len(log)].op = "ok") =>
              /\ events # <<>>
              /\ events[Len(events)].source_url = PyStr(log[Len(log)].url)
              /\ log[Len(log)].url = full_url

\* one scrape returned a record for a root-relative href under the calendar's
\* host and a record for an absolute href on another host
C12_Witness ==
    /\ ScrapeReturned
    /\ \E i, j \in 1..Len(events) :
          /\ events[i].source_url
                = PyStr(<<"https", "://", "events.bmc.edu", "/", "event", "/", "1">>)
          /\ events[j].source_url
                = PyStr(<<"https", "://", "x.org", "/", "event", "/", "3">>)
    /\ <<"/", "event", "/", "1">> \in seen_events

(***************************************************************************)
(* What a page text contains, stated on the text itself.                   *)
(***************************************************************************)
AllSpaces(s) == \A q \in 1..Len(s) : IsSpace(s[q])
\* a month name, whitespace, a day, an optional comma, whitespace, a year
IsDateText(s) ==
    /\ Len(s) >= 5
    /\ s[1] \in {"Dec", "dec", "December"}
    /\ s[Len(s)] = "2025"
    /\ \E p \in 3..(Len(s) - 2) :
          /\ s[p] \in {"9", "01", "12"}
          /\ AllSpaces(SubSeq(s, 2, p - 1))
          /\ LET rest == SubSeq(s, p + 1, Len(s) - 1)
             IN  \/ AllSpaces(rest)
                 \/ Len(rest) >= 2 /\ rest[1] = "," /\ AllSpaces(Tail(rest))
HasDate(text) ==
    \E i, k \in 1..Len(text) : i < k /\ IsDateText(SubSeq(text, i, k))
\* a clock time, optional whitespace, AM or PM
HasTime(text) ==
    \E i, k \in 1..Len(text) :
        /\ i < k
        /\ text[i] \in {"09:00", "9:00"}
        /\ text[k] \in {"AM", "PM"}
        /\ AllSpaces(SubSeq(text, i + 1, k - 1))
\* the word LOCATION, in any case
HasLocationWord(text) ==
    \E i \in 1..Len(text) : text[i] \in {"LOCATION", "Location", "location"}

\* the answered detail requests that succeeded, in order
OkAnswers == SelectSeq(DetailAnswers, LAMBDA e : e.op = "ok")
\* no detail request is under way
BetweenDetails == IsScrape /\ CalendarOk /\ pc \in {"NextLink", "Saving", "Done"}

(***************************************************************************)
(* C13: every detail request that succeeds yields a record, whatever the   *)
(* page is.  The record's source_url is the requested URL; its date and    *)
(* its time are None exactly when the text has no date and no time, each   *)
(* on its own; its title is 'Campus Event' when the page has no h2 and its *)
(* location 'Blue Mountain Christian University' when the text has no      *)
(* LOCATION.                                                               *)
(***************************************************************************)
C13_RecordForEveryPage ==
    BetweenDetails =>
        /\ Len(events) = Len(OkAnswers)
        /\ \A i \in 1..Len(events) :
              LET r == events[i]
                  page == web[OkAnswers[i].url]
              IN  /\ r.source_url = PyStr(OkAnswers[i].url)
                  /\ r.title.t = "str" /\ r.location.t = "str"
                  /\ page.h2 = <<>> => r.title = PyStr(DefaultTitle)
                  /\ ~HasLocationWord(page.text) => r.location = PyStr(DefaultLocation)
                  /\ IF HasDate(page.text) THEN r.date.t = "str" ELSE r.date = PyNone
                  /\ IF HasTime(page.text) THEN r.time.t = "str" ELSE r.time = PyNone

\* a record with a date but no time, no title of its own and no location of
\* its own
C13_Witness ==
    /\ BetweenDetails
    /\ \E i \in 1..Len(events) :
          /\ events[i].date.t = "str"
          /\ events[i].time = PyNone
          /\ events[i].title = PyStr(DefaultTitle)
          /\ events[i].location = PyStr(DefaultLocation)
          /\ events[i].description.t = "str"

(***************************************************************************)
(* C14 (as claimed): the description of a record is the page text between  *)
(* the literal DESCRIPTION and the first following QUESTIONS, Upcoming or  *)
(* Interested as written (the end of the text when there is none),         *)
(* whitespace-collapsed, without angle-bracket markup and cut to 500       *)
(* characters; it is None when the text has no DESCRIPTION.                *)
(***************************************************************************)
ClaimedDescription(text) ==
    LET marks == {i \in 1..Len(text) : text[i] = "DESCRIPTION"}
        m == Min(marks)
        stops == {j \in (m + 1)..Len(text) :
                     text[j] \in {"QUESTIONS", "Upcoming", "Interested"}}
        to == IF stops = {} THEN Len(text) ELSE Min(stops) - 1
        between == SubMarkup(Collapse(SubSeq(text, m + 1, to)))
    IN  IF marks = {} THEN PyNone
        ELSE PyStr(IF StrLen(between) > 500 THEN Slice(between, 500) ELSE between)

C14_DescriptionBetweenMarkers ==
    BetweenDetails =>
        \A i \in 1..Len(events) :
            /\ i <= Len(OkAnswers)
            /\ events[i].description = ClaimedDescription(web[OkAnswers[i].url].text)

Requests(url) == Len(SelectSeq(log, LAMBDA e : e.op = "GET" /\ e.url = url))
Raises == SelectSeq(log, LAMBDA e : e.op = "raise")

ScrapeOrder(p, q) ==
    \/ q = p
    \/ p \in {"Idle", "Done"} /\ q = "FetchingCalendar"
    \/ p = "FetchingCalendar" /\ q = "ExtractingLinks" /\ CalendarOk'
    \/ p = "FetchingCalendar" /\ q = "Done" /\ CalendarFailed' /\ events' = <<>>
    \/ p = "ExtractingLinks" /\ q = "NextLink" /\ DetailRequests' = <<>>
    \/ /\ p = "NextLink" /\ q = "FetchingDetail"
       /\ Len(DetailRequests') = Len(DetailRequests) + 1
    \/ /\ p = "NextLink" /\ q \in {"Saving", "Done"}
       /\ UrlsOf(DetailAnswers) = Resolved(Candidates(response))
    \/ p = "FetchingDetail" /\ q = "ExtractingFields" /\ log'[Len(log')].op = "ok"
    \/ p = "FetchingDetail" /\ q = "NextLink" /\ log'[Len(log')].op = "fail"
    \/ p = "ExtractingFields" /\ q = "NextLink" /\ Len(events') = Len(events) + 1
    \/ p = "Saving" /\ q = "Done"

\* candidate n is being fetched or read and every candidate before it has
\* been extracted or skipped
OneAtATime ==
    /\ pc = "FetchingDetail" =>
          /\ Len(DetailAnswers) = Len(DetailRequests) - 1
          /\ Len(events) = Len(OkAnswers)
    /\ pc = "ExtractingFields" =>
          /\ Len(DetailAnswers) = Len(DetailRequests)
          /\ Len(events) = Len(OkAnswers) - 1
          /\ log[Len(log)] = [op |-> "ok", url |-> full_url]
    /\ pc \in {"NextLink", "Saving", "Done"} /\ CalendarOk =>
          /\ Len(DetailAnswers) = Len(DetailRequests)
          /\ Len(events) = Len(OkAnswers)

(***************************************************************************)
(* C17: a scrape goes from the calendar request to the extraction of the   *)
(* links and then through its candidates one at a time, each fetched and,  *)
(* if the fetch succeeded, read before the next is taken up; a failed      *)
(* calendar request leads straight to Done.  A scrape that is not Done     *)
(* always has a next step, and, every request returning or failing, each   *)
(* scrape reaches Done.                                                    *)
(***************************************************************************)
C17_OneAtATimeToDone ==
    /\ [][IsScrape' => ScrapeOrder(pc, pc')]_vars
    /\ [](IsScrape => OneAtATime)
    /\ []((IsScrape /\ pc # "Done") => ENABLED ScrapeStep)
    /\ (pc = "FetchingCalendar") ~> (pc = "Done")

\* a scrape is Done after reading two pages and skipping a failed one
C17_Witness ==
    /\ IsScrape /\ pc = "Done"
    /\ Len(OkAnswers) >= 2
    /\ Len(DetailAnswers) > Len(OkAnswers)

\* the atoms of s that are not whitespace
Words(s) == {s[i] : i \in {j \in 1..Len(s) : ~IsSpace(s[j])}}
\* the text that follows the first LOCATION of the text
AfterLocation(text) ==
    LET m == Min({i \in 1..Len(text) : text[i] \in {"LOCATION", "Location", "location"}})
    IN  SubSeq(text, m + 1, Len(text))

(***************************************************************************)
(* C18 (as claimed): the location of a record is never empty, is 'Blue     *)
(* Mountain Christian University' when the text has no LOCATION, and       *)
(* otherwise is that default or made of words of the text that follows     *)
(* the LOCATION marker, never of words found only before it, such as the   *)
(* event date.                                                             *)
(***************************************************************************)
C18_LocationFollowsMarker ==
    BetweenDetails =>
        \A i \in 1..Len(events) :
            LET text == web[events[i].source_url.v].text
                location == events[i].location
            IN  /\ location.t = "str" /\ location.v # <<>>
                /\ ~HasLocationWord(text) => location = PyStr(DefaultLocation)
                /\ HasLocationWord(text) =>
                      \/ location = PyStr(DefaultLocation)
                      \/ Words(location.v) \subseteq Words(AfterLocation(text))

\* a 2xx JSON object without the error indicator whose location and current
\* are each missing or an object
MissingOrObject(raw) ==
    /\ raw.t = "dict"
    /\ ~HasError(raw)
    /\ \A k \in {"location", "current"} \cap DOMAIN raw.v : raw.v[k].t = "dict"

(***************************************************************************)
(* C19 (as claimed): when the provider answers 2xx with a JSON object that *)
(* has no error indicator, the call goes on to clean_data, also when the   *)
(* object has no location, no current or nothing at all; clean_data does   *)
(* not fail for the missing objects, and the call, unless the storage      *)
(* raises, returns True with one row appended.                             *)
(***************************************************************************)
C19_MissingObjectsDefaulted ==
    (Answered /\ response.kind = "json" /\ MissingOrObject(response.body)) =>
        /\ weather_data = response.body
        /\ pc = "Done" =>
              /\ Len(Stages) >= 2 /\ Stages[2] = "clean_data"
              /\ (\A k \in DOMAIN response.body.v :
                        k \in DOMAIN WeatherFull.v /\ response.body.v[k] = WeatherFull.v[k])
                    => cleaned_data.t = "dict"
              /\ (cleaned_data.t = "dict" /\ Raises = <<>>) =>
                    /\ ret = PyBool(TRUE)
                    /\ Len(api_data) = Len(db0.api_data) + 1

====
